---- MODULE Spec2Model ----
(***************************************************************************)
(* IndShockConsumerType_extend: the distribution of agents over a grid of  *)
(* normalized market resources (m) and permanent income (p), the           *)
(* transition matrix on that grid and its ergodic distribution.            *)
(*                                                                         *)
(* Real numbers are exact rationals [n |-> numerator, d |-> denominator],  *)
(* kept in lowest terms with d > 0, so that equal numbers are equal        *)
(* records.  A denominator of 0 stands for the inf/nan that numpy yields   *)
(* on a division by zero.  Python sequences are TLA+ sequences; PyAt and   *)
(* the probGrid functions use Python's 0-based (and negative) indices.     *)
(***************************************************************************)
EXTENDS Integers, Sequences, FiniteSets, TLC

VARIABLES cycles, LivPrb, Rfree, cFunc, IncShkDstn, aXtraGrid,
          Dist_mGrid, Dist_pGrid, aNext, Cnow, TranMatrix,
          vec_dstn, ergodic_distr, call

vars == <<cycles, LivPrb, Rfree, cFunc, IncShkDstn, aXtraGrid,
          Dist_mGrid, Dist_pGrid, aNext, Cnow, TranMatrix,
          vec_dstn, ergodic_distr, call>>

params == <<cycles, LivPrb, Rfree, cFunc, IncShkDstn, aXtraGrid>>

\* An attribute that has not been assigned yet (every assigned attribute is a
\* non-empty sequence).
Unset == <<>>

----------------------------------------------------------------------------
\* Exact arithmetic

Abs(x) == IF x < 0 THEN -x ELSE x

RECURSIVE GCD(_, _)
GCD(a, b) == IF b = 0 THEN a ELSE GCD(b, a % b)

\* The rational n/d in lowest terms, d # 0.
R(n, d) ==
    LET g == GCD(Abs(n), Abs(d))
        s == IF d < 0 THEN -1 ELSE 1
    IN  [n |-> s * (n \div g), d |-> s * (d \div g)]

Zero == R(0, 1)
One == R(1, 1)

\* Sums go through the least common denominator and products are reduced
\* crosswise first, which keeps the intermediate integers small.
RAdd(x, y) ==
    LET g == GCD(x.d, y.d)
    IN  R(x.n * (y.d \div g) + y.n * (x.d \div g), (x.d \div g) * y.d)
RNeg(x) == [n |-> -x.n, d |-> x.d]
RSub(x, y) == RAdd(x, RNeg(y))
RMul(x, y) ==
    LET g1 == GCD(Abs(x.n), y.d)
        g2 == GCD(Abs(y.n), x.d)
    IN  IF x.n = 0 \/ y.n = 0 THEN [n |-> 0, d |-> 1]
        ELSE [n |-> (x.n \div g1) * (y.n \div g2), d |-> (x.d \div g2) * (y.d \div g1)]
\* numpy float division: a zero divisor gives inf or nan, never an exception
RDiv(x, y) ==
    IF y.n = 0 THEN [n |-> IF x.n > 0 THEN 1 ELSE IF x.n < 0 THEN -1 ELSE 0, d |-> 0]
    ELSE RMul(x, IF y.n < 0 THEN [n |-> -y.d, d |-> -y.n] ELSE [n |-> y.d, d |-> y.n])
RLe(x, y) == x.n * y.d <= y.n * x.d
RLt(x, y) == x.n * y.d < y.n * x.d
IsFinite(x) == x.d # 0

RECURSIVE RSum(_)
RSum(s) == IF s = <<>> THEN Zero ELSE RAdd(s[1], RSum(Tail(s)))

\* A sequence given by a rule, as the array of its values
Array(s) == SubSeq(s, 1, Len(s))

\* Python indexing of a sequence: 0-based, negative indices count from the end
PyAt(s, i) == IF i < 0 THEN s[Len(s) + i + 1] ELSE s[i + 1]
PyIdx(i, n) == IF i < 0 THEN n + i ELSE i

----------------------------------------------------------------------------
\* JumpToGrid

\* np.digitize(x, bins) for increasing bins, right=False: the number of bins <= x
Digitize(x, bins) == Cardinality({k \in 1..Len(bins) : RLe(bins[k], x)})

\* mIndex[i] / pIndex[i]: the digitized index after the two boundary overrides
GridIndex(x, grid) ==
    LET idx == Digitize(x, grid) - 1
        lo == IF RLe(x, grid[1]) THEN -1 ELSE idx
    IN  IF RLe(grid[Len(grid)], x) THEN Len(grid) - 1 ELSE lo

\* Bracket with the branch for samples at or below the minimum copied from
\* the branch for the maximum (index -1 instead of 0)
BracketLowToLast(x, grid) ==
    LET idx == GridIndex(x, grid) IN
    IF idx = -1 \/ idx = Len(grid) - 1
    THEN [lowerIndex |-> -1, upperIndex |-> -1, lowerWeight |-> One, upperWeight |-> Zero]
    ELSE LET lw == RDiv(RSub(PyAt(grid, idx + 1), x),
                        RSub(PyAt(grid, idx + 1), PyAt(grid, idx)))
         IN  [lowerIndex |-> idx, upperIndex |-> idx + 1,
              lowerWeight |-> lw, upperWeight |-> RSub(One, lw)]

\* Bracket without interpolation: an inner sample goes to the lower point
BracketNearest(x, grid) ==
    LET idx == GridIndex(x, grid) IN
    IF idx = -1
    THEN [lowerIndex |-> 0, upperIndex |-> 0, lowerWeight |-> One, upperWeight |-> Zero]
    ELSE IF idx = Len(grid) - 1
    THEN [lowerIndex |-> -1, upperIndex |-> -1, lowerWeight |-> One, upperWeight |-> Zero]
    ELSE [lowerIndex |-> idx, upperIndex |-> idx + 1,
          lowerWeight |-> One, upperWeight |-> Zero]

\* Bracket with the weight (x - g_lo)/(g_hi - g_lo) on the lower point
BracketSwapped(x, grid) ==
    LET idx == GridIndex(x, grid) IN
    IF idx = -1
    THEN [lowerIndex |-> 0, upperIndex |-> 0, lowerWeight |-> One, upperWeight |-> Zero]
    ELSE IF idx = Len(grid) - 1
    THEN [lowerIndex |-> -1, upperIndex |-> -1, lowerWeight |-> One, upperWeight |-> Zero]
    ELSE LET lw == RDiv(RSub(x, PyAt(grid, idx)),
                        RSub(PyAt(grid, idx + 1), PyAt(grid, idx)))
         IN  [lowerIndex |-> idx, upperIndex |-> idx + 1,
              lowerWeight |-> lw, upperWeight |-> RSub(One, lw)]

\* The three branches that choose the bracketing indices and weights of one
\* sample in one dimension.
Bracket(x, grid) ==
    LET idx == GridIndex(x, grid) IN
    IF idx = -1
    THEN [lowerIndex |-> 0, upperIndex |-> 0, lowerWeight |-> One, upperWeight |-> Zero]
    ELSE IF idx = Len(grid) - 1
    THEN [lowerIndex |-> -1, upperIndex |-> -1, lowerWeight |-> One, upperWeight |-> Zero]
    ELSE LET lw == RDiv(RSub(PyAt(grid, idx + 1), x),
                        RSub(PyAt(grid, idx + 1), PyAt(grid, idx)))
         IN  [lowerIndex |-> idx, upperIndex |-> idx + 1,
              lowerWeight |-> lw, upperWeight |-> RSub(One, lw)]

\* Accumulate that overwrites: probGrid[a][b] = v
AccumulateOverwrite(probGrid, a, b, v) ==
    LET ia == PyIdx(a, Cardinality(DOMAIN probGrid))
        ib == PyIdx(b, Cardinality(DOMAIN probGrid[0]))
    IN  [probGrid EXCEPT ![ia][ib] = v]

\* probGrid[a][b] = probGrid[a][b] + v
Accumulate(probGrid, a, b, v) ==
    LET ia == PyIdx(a, Cardinality(DOMAIN probGrid))
        ib == PyIdx(b, Cardinality(DOMAIN probGrid[0]))
    IN  [probGrid EXCEPT ![ia][ib] = RAdd(@, v)]

\* The four corner updates of one sample
AddSample(probGrid, mB, pB, prob) ==
    LET g1 == Accumulate(probGrid, mB.lowerIndex, pB.lowerIndex,
                         RMul(RMul(prob, mB.lowerWeight), pB.lowerWeight))
        g2 == Accumulate(g1, mB.lowerIndex, pB.upperIndex,
                         RMul(RMul(prob, mB.lowerWeight), pB.upperWeight))
        g3 == Accumulate(g2, mB.upperIndex, pB.lowerIndex,
                         RMul(RMul(prob, mB.upperWeight), pB.lowerWeight))
    IN  Accumulate(g3, mB.upperIndex, pB.upperIndex,
                   RMul(RMul(prob, mB.upperWeight), pB.upperWeight))

\* Flatten in column-major order, index j*len(mGrid)+i
FlattenColumnMajor(probGrid, M, P) ==
    [k \in 1..(M * P) |-> probGrid[(k - 1) % M][(k - 1) \div M]]

\* probGrid.flatten(): row-major, index i*len(pGrid)+j (here 1-based)
Flatten(probGrid, M, P) ==
    [k \in 1..(M * P) |-> probGrid[(k - 1) \div P][(k - 1) % P]]

\* The loop over range(len(m_vals)) from iteration i on.  pIndex[i] and
\* probs[i] raise IndexError when perm_vals or probs is shorter than m_vals.
RECURSIVE JumpLoop(_, _, _, _, _, _, _)
JumpLoop(mGrid, pGrid, m_vals, perm_vals, probs, i, probGrid) ==
    IF i >= Len(m_vals)
    THEN [raised |-> "none", ret |-> Flatten(probGrid, Len(mGrid), Len(pGrid))]
    ELSE IF i >= Len(perm_vals) \/ i >= Len(probs)
    THEN [raised |-> "IndexError", ret |-> Unset]
    ELSE JumpLoop(mGrid, pGrid, m_vals, perm_vals, probs, i + 1,
                  AddSample(probGrid, Bracket(PyAt(m_vals, i), mGrid),
                            Bracket(PyAt(perm_vals, i), pGrid), PyAt(probs, i)))

JumpToGrid(mGrid, pGrid, m_vals, perm_vals, probs) ==
    JumpLoop(mGrid, pGrid, m_vals, perm_vals, probs, 0,
             [a \in 0..(Len(mGrid) - 1) |-> [b \in 0..(Len(pGrid) - 1) |-> Zero]])

----------------------------------------------------------------------------
\* DefineDistributionGrid

\* An argument is None, a Python list or a numpy array.
None == [kind |-> "None", val |-> <<>>]
PyList(s) == [kind |-> "list", val |-> s]
NdArray(s) == [kind |-> "ndarray", val |-> s]

\* The truth value of `arg == None` in an if: numpy compares an array with
\* None element by element, and the truth value of an array of more than one
\* element raises ValueError.
EqNone(arg) ==
    IF arg.kind = "None" THEN "True"
    ELSE IF arg.kind = "list" THEN "False"
    ELSE IF Len(arg.val) = 1 THEN "False"
    ELSE "ValueError"

Reverse(s) == [k \in 1..Len(s) |-> s[Len(s) + 1 - k]]

\* make_grid_exp_mult(1.0+1e-3, np.exp(max_p), num_points, 2): an increasing
\* grid of points above 1, here of OneSidedPoints points 2, 3, ...
OneSidedPoints == 1
one_sided_grid == [k \in 1..OneSidedPoints |-> R(k + 1, 1)]

\* np.append(np.append(1.0/np.fliplr([one_sided_grid])[0], np.ones(1)), one_sided_grid)
AutoPGrid ==
    [k \in 1..Len(one_sided_grid) |-> RDiv(One, Reverse(one_sided_grid)[k])]
        \o <<One>> \o one_sided_grid

\* What one call does: the exception it raises (or "none"), whether it
\* printed the message, and the grids stored when it ends.
DefineOutcome(m_arg, p_arg) ==
    LET same == [raised |-> "none", printed |-> FALSE,
                 mGrid |-> Dist_mGrid, pGrid |-> Dist_pGrid]
    IN
    IF cycles # 0 THEN [same EXCEPT !.printed = TRUE]
    ELSE IF EqNone(m_arg) = "ValueError" THEN [same EXCEPT !.raised = "ValueError"]
    ELSE LET m == IF EqNone(m_arg) = "True" THEN aXtraGrid ELSE m_arg.val
             afterM == [same EXCEPT !.mGrid = m]
         IN  IF EqNone(p_arg) = "ValueError" THEN [afterM EXCEPT !.raised = "ValueError"]
             ELSE IF EqNone(p_arg) = "True"
             THEN IF LivPrb = One
                  THEN [afterM EXCEPT !.raised = "ZeroDivisionError"]
                  ELSE [afterM EXCEPT !.pGrid = AutoPGrid]
             ELSE [afterM EXCEPT !.pGrid = p_arg.val]

NoCall == [op |-> "none", done |-> TRUE, raised |-> "none", printed |-> FALSE,
           m_arg |-> None, p_arg |-> None,
           m_vals |-> <<>>, perm_vals |-> <<>>, probs |-> <<>>, ret |-> <<>>]

DefineDistributionGrid(m_arg, p_arg) ==
    LET out == DefineOutcome(m_arg, p_arg) IN
    /\ Dist_mGrid' = out.mGrid
    /\ Dist_pGrid' = out.pGrid
    /\ call' = [NoCall EXCEPT !.op = "DefineDistributionGrid",
                              !.raised = out.raised, !.printed = out.printed,
                              !.m_arg = m_arg, !.p_arg = p_arg]
    /\ UNCHANGED <<params, aNext, Cnow, TranMatrix, vec_dstn, ergodic_distr>>

----------------------------------------------------------------------------
\* CalcTransitionMatrix

\* self.solution[0].cFunc: the consumption function of the solved model
Policy(f, m) ==
    CASE f = "zero" -> Zero
      [] f = "half" -> RMul(R(1, 2), m)
      [] f = "all" -> m

ShockProbs == IncShkDstn.pmf
PermShocks == IncShkDstn.X[1]
TranShocks == IncShkDstn.X[2]

\* Blend that adds the whole newborn distribution
BlendUnweighted(survive, NewBornDist) ==
    [r \in 1..Len(survive) |-> RAdd(RMul(LivPrb, survive[r]), NewBornDist[r])]

\* LivPrb*JumpToGrid(mNext_ij, pNext_ij, ShockProbs) + (1.0-LivPrb)*NewBornDist
Blend(survive, NewBornDist) ==
    [r \in 1..Len(survive) |->
        RAdd(RMul(LivPrb, survive[r]), RMul(RSub(One, LivPrb), NewBornDist[r]))]

\* Column that multiplies bNext by the permanent shock
TranColumnTimesPerm(i, j, bNext, NewBornDist) ==
    LET mNext_ij == [k \in 1..Len(PermShocks) |->
                        RAdd(RMul(PyAt(bNext, i), PermShocks[k]), TranShocks[k])]
        pNext_ij == [k \in 1..Len(PermShocks) |->
                        RMul(PyAt(Dist_pGrid, j), PermShocks[k])]
    IN  Blend(JumpToGrid(Dist_mGrid, Dist_pGrid, mNext_ij, pNext_ij, ShockProbs).ret,
              NewBornDist)

\* Column i*len(Dist_pGrid)+j of TranMatrix (i, j 0-based)
TranColumn(i, j, bNext, NewBornDist) ==
    LET mNext_ij == [k \in 1..Len(PermShocks) |->
                        RAdd(RDiv(PyAt(bNext, i), PermShocks[k]), TranShocks[k])]
        pNext_ij == [k \in 1..Len(PermShocks) |->
                        RMul(PyAt(Dist_pGrid, j), PermShocks[k])]
    IN  Blend(JumpToGrid(Dist_mGrid, Dist_pGrid, mNext_ij, pNext_ij, ShockProbs).ret,
              NewBornDist)

\* TranMatrix as the sequence of its rows, TranMatrix[row][column]
BuildTranMatrix ==
    LET M == Len(Dist_mGrid)
        P == Len(Dist_pGrid)
        a == [i \in 1..M |-> RSub(Dist_mGrid[i], Policy(cFunc, Dist_mGrid[i]))]
        bNext == Array([i \in 1..M |-> RMul(Rfree, a[i])])
        NewBornDist == Array(JumpToGrid(Dist_mGrid, Dist_pGrid, TranShocks,
                                  [k \in 1..Len(TranShocks) |-> One], ShockProbs).ret)
        cols == Array([c \in 1..(M * P) |->
                    Array(TranColumn((c - 1) \div P, (c - 1) % P, bNext, NewBornDist))])
    IN  [r \in 1..(M * P) |-> [c \in 1..(M * P) |-> cols[c][r]]]

CalcTransitionMatrix ==
    IF Dist_mGrid = Unset \/ Dist_pGrid = Unset
    THEN /\ call' = [NoCall EXCEPT !.op = "CalcTransitionMatrix",
                                   !.raised = "AttributeError"]
         /\ UNCHANGED <<params, Dist_mGrid, Dist_pGrid, aNext, Cnow, TranMatrix,
                        vec_dstn, ergodic_distr>>
    ELSE /\ aNext' = [i \in 1..Len(Dist_mGrid) |->
                         RSub(Dist_mGrid[i], Policy(cFunc, Dist_mGrid[i]))]
         /\ Cnow' = [i \in 1..Len(Dist_mGrid) |-> Policy(cFunc, Dist_mGrid[i])]
         /\ TranMatrix' = BuildTranMatrix
         /\ call' = [NoCall EXCEPT !.op = "CalcTransitionMatrix"]
         /\ UNCHANGED <<params, Dist_mGrid, Dist_pGrid, vec_dstn, ergodic_distr>>

----------------------------------------------------------------------------
\* CalcErgodicDist

RECURSIVE LcmDen(_, _)
LcmDen(row, k) ==
    IF k = 0 THEN 1
    ELSE LET l == LcmDen(row, k - 1) IN (l \div GCD(l, row[k].d)) * row[k].d

RECURSIVE IntDot(_, _, _)
IntDot(row, v, k) == IF k = 0 THEN 0 ELSE row[k] * v[k] + IntDot(row, v, k - 1)

\* The entries of the eigenvectors tried are the integers -1..EigMax, and
\* the matrices solved have at most MaxCells rows.
EigMax == 2
MaxCells == 6

\* sp.linalg.eigs(TranMatrix, k=1, which='LM'): an eigenvector for an
\* eigenvalue of largest magnitude.  The spectral radius of a column-stochastic
\* matrix is 1; of the eigenvalues on the unit circle the real ones, 1 and -1,
\* are modelled.  Which of several eigenvalues of equal magnitude, and which
\* vector of an eigenspace of dimension above 1, ARPACK converges to depends
\* on its random start vector, and the vector comes in any scale and sign.
Eigs(T) ==
    LET N == Len(T)
        \* row i of T as integers over the common denominator den[i]
        den == Array([i \in 1..N |-> LcmDen(T[i], N)])
        num == Array([i \in 1..N |->
                   Array([j \in 1..N |-> T[i][j].n * (den[i] \div T[i][j].d)])])
    IN  { v \in [1..N -> (-1)..EigMax] :
            /\ \E j \in 1..N : v[j] # 0
            /\ \E lam \in {1, -1} :
                  \A i \in 1..N : IntDot(num[i], v, N) = lam * den[i] * v[i] }

\* ergodic_distr.real/np.sum(ergodic_distr.real)
Normalize(v) ==
    LET real == [i \in 1..Len(v) |-> R(v[i], 1)]
        total == RSum(real)
    IN  [i \in 1..Len(v) |-> RDiv(real[i], total)]

\* vec.reshape((M, P))
Reshape(vec, M, P) == [i \in 1..M |-> [j \in 1..P |-> vec[(i - 1) * P + j]]]

\* eigs with k=1 runs ARPACK only for matrices of 3 rows or more
ArpackMinRows == 3

CalcErgodicDist ==
    IF TranMatrix = Unset
    THEN /\ call' = [NoCall EXCEPT !.op = "CalcErgodicDist", !.raised = "AttributeError"]
         /\ UNCHANGED <<params, Dist_mGrid, Dist_pGrid, aNext, Cnow, TranMatrix,
                        vec_dstn, ergodic_distr>>
    ELSE /\ Len(TranMatrix) >= ArpackMinRows
         /\ Len(TranMatrix) <= MaxCells
         /\ \E v \in Eigs(TranMatrix) :
              LET dist == Normalize(v)
                  fits == Len(dist) = Len(Dist_mGrid) * Len(Dist_pGrid)
              IN  /\ vec_dstn' = dist
                  /\ ergodic_distr' = IF fits
                                      THEN Reshape(dist, Len(Dist_mGrid), Len(Dist_pGrid))
                                      ELSE ergodic_distr
                  /\ call' = [NoCall EXCEPT !.op = "CalcErgodicDist",
                                 !.raised = IF fits THEN "none" ELSE "ValueError"]
         /\ UNCHANGED <<params, Dist_mGrid, Dist_pGrid, aNext, Cnow, TranMatrix>>

----------------------------------------------------------------------------
\* The agent: construction, then any sequence of calls

Seq2(a, b) == <<R(a, 1), R(b, 1)>>

\* IncShkDstn[0]: pmf, X[0] the permanent and X[1] the transitory shocks
ShockDstns ==
    { [pmf |-> <<One>>, X |-> <<<<One>>, <<Zero>>>>],
      [pmf |-> <<R(1, 2), R(1, 2)>>, X |-> <<<<One, One>>, <<Zero, R(5, 2)>>>>],
      [pmf |-> <<R(1, 4), R(3, 4), Zero>>,
       X |-> <<<<R(1, 2), R(2, 1), One>>, <<One, Zero, R(12, 1)>>>>] }

Grid3 == <<Zero, R(5, 1), R(10, 1)>>
MGridArgs == {None, NdArray(Grid3), PyList(Grid3)}
PGridArgs == {None, NdArray(Seq2(1, 3)), NdArray(<<One>>)}

Init ==
    /\ cycles \in {0, 1}
    /\ LivPrb \in {R(1, 2), One}
    /\ Rfree \in {R(3, 4), R(3, 2)}
    /\ cFunc \in {"zero", "half", "all"}
    /\ IncShkDstn \in ShockDstns
    /\ aXtraGrid = Seq2(0, 10)
    /\ Dist_mGrid = Unset
    /\ Dist_pGrid = Unset
    /\ aNext = Unset
    /\ Cnow = Unset
    /\ TranMatrix = Unset
    /\ vec_dstn = Unset
    /\ ergodic_distr = Unset
    /\ call = NoCall

Next ==
    \/ \E m_arg \in MGridArgs, p_arg \in PGridArgs : DefineDistributionGrid(m_arg, p_arg)
    \/ CalcTransitionMatrix
    \/ CalcErgodicDist

Spec == Init /\ [][Next]_vars

----------------------------------------------------------------------------
\* JumpToGrid called on an agent whose grids are defined

MGridSet == { <<R(2, 1)>>, Seq2(1, 2), <<Zero, R(2, 1), R(4, 1)>> }
PGridSet == { <<R(2, 1)>>, Seq2(1, 2), <<Zero, One, R(4, 1)>> }

\* Sample values: below, on and above the one-point grid and the grid 1, 2;
\* on the ends, on the inner point, on a midpoint (1 in 0, 2) and off the
\* midpoint (2 in 1, 4) of the three-point grids.
SampleVals == { Zero, One, R(2, 1), R(4, 1) }

\* The number of samples of one call
MaxLen == 2

Samples == [m : SampleVals, p : SampleVals]
SampleSeqs(n) == [1..n -> Samples]

\* The probabilities of n samples: 1/4 each, or 1/2, 1/4, 1/8, ...
RECURSIVE Pow2(_)
Pow2(k) == IF k = 0 THEN 1 ELSE 2 * Pow2(k - 1)
ProbSeqs(n) == { [k \in 1..n |-> R(1, 4)], [k \in 1..n |-> R(1, Pow2(k))] }

\* The first n elements of s
Prefix(s, n) == SubSeq(s, 1, n)

\* The three arguments are cut from one sequence of n samples: all of the
\* same length, or one of them a sample short of the other two.
Cuts(n) == IF n = 0 THEN {<<0, 0, 0>>}
           ELSE {<<0, 0, 0>>, <<1, 0, 0>>, <<0, 1, 0>>, <<0, 0, 1>>}

ArgTriples(n) ==
    { [m_vals |-> Prefix([k \in 1..n |-> x[1][k].m], n - x[2][1]),
       perm_vals |-> Prefix([k \in 1..n |-> x[1][k].p], n - x[2][2]),
       probs |-> Prefix(x[3], n - x[2][3])] :
      x \in SampleSeqs(n) \X Cuts(n) \X ProbSeqs(n) }

\* The call returns or raises
JumpToGridCall ==
    /\ call.op = "JumpToGrid"
    /\ ~call.done
    /\ LET out == JumpToGrid(Dist_mGrid, Dist_pGrid,
                             call.m_vals, call.perm_vals, call.probs)
       IN  call' = [call EXCEPT !.done = TRUE, !.raised = out.raised, !.ret = out.ret]
    /\ UNCHANGED <<params, Dist_mGrid, Dist_pGrid, aNext, Cnow, TranMatrix,
                   vec_dstn, ergodic_distr>>

InitJump ==
    /\ cycles = 0
    /\ LivPrb = One
    /\ Rfree = One
    /\ cFunc = "zero"
    /\ IncShkDstn = [pmf |-> <<One>>, X |-> <<<<One>>, <<Zero>>>>]
    /\ aXtraGrid = Seq2(0, 10)
    /\ Dist_mGrid \in MGridSet
    /\ Dist_pGrid \in PGridSet
    /\ aNext = Unset
    /\ Cnow = Unset
    /\ TranMatrix = Unset
    /\ vec_dstn = Unset
    /\ ergodic_distr = Unset
    /\ \E n \in 0..MaxLen : \E a \in ArgTriples(n) :
          call = [NoCall EXCEPT !.op = "JumpToGrid", !.done = FALSE,
                                !.m_vals = a.m_vals, !.perm_vals = a.perm_vals,
                                !.probs = a.probs]

NextJump == JumpToGridCall

SpecJump == InitJump /\ [][NextJump]_vars

----------------------------------------------------------------------------
\* Properties of JumpToGrid (SpecJump)

GridLenM == Len(Dist_mGrid)
GridLenP == Len(Dist_pGrid)

\* The call returned a vector
Returned == call.op = "JumpToGrid" /\ call.done /\ call.raised = "none"
EqualLen == Len(call.m_vals) = Len(call.perm_vals) /\ Len(call.m_vals) = Len(call.probs)
NSamples == Len(call.m_vals)

\* The returned mass of cell (i, j), i and j counted from 1
Cell(i, j) == call.ret[(i - 1) * GridLenP + j]
RowMass(i) == RSum(Array([j \in 1..GridLenP |-> Cell(i, j)]))
ColMass(j) == RSum(Array([i \in 1..GridLenM |-> Cell(i, j)]))

\* The largest k with grid[k] <= x, for grid[1] <= x
Below(x, grid) == CHOOSE k \in 1..Len(grid) :
                      /\ RLe(grid[k], x)
                      /\ \A l \in 1..Len(grid) : RLe(grid[l], x) => l <= k

\* The share of a sample at x that the claims put on point i of grid
Share(x, grid, i) ==
    IF RLe(x, grid[1]) THEN (IF i = 1 THEN One ELSE Zero)
    ELSE IF RLe(grid[Len(grid)], x) THEN (IF i = Len(grid) THEN One ELSE Zero)
    ELSE LET lo == Below(x, grid)
             w == RDiv(RSub(grid[lo + 1], x), RSub(grid[lo + 1], grid[lo]))
         IN  IF i = lo THEN w ELSE IF i = lo + 1 THEN RSub(One, w) ELSE Zero

\* C1: when the three arguments have the same length, the entries of the
\* returned vector sum to the sum of probs.
C1_MassPreserved ==
    (Returned /\ EqualLen) => RSum(call.ret) = RSum(call.probs)

\* Two samples on the same corner cell, below the m grid and above the p grid
C1_Witness ==
    /\ Returned /\ EqualLen /\ NSamples = 2
    /\ call.m_vals[1] = call.m_vals[2] /\ call.perm_vals[1] = call.perm_vals[2]
    /\ RLt(call.m_vals[1], Dist_mGrid[1])
    /\ RLt(Dist_pGrid[GridLenP], call.perm_vals[1])
    /\ RSum(call.ret) = R(3, 4)

SampleMeanM == RSum(Array([k \in 1..NSamples |-> RMul(call.probs[k], call.m_vals[k])]))
SampleMeanP == RSum(Array([k \in 1..NSamples |-> RMul(call.probs[k], call.perm_vals[k])]))
GridMeanM == RSum(Array([i \in 1..GridLenM |-> RMul(Dist_mGrid[i], RowMass(i))]))
GridMeanP == RSum(Array([j \in 1..GridLenP |-> RMul(Dist_pGrid[j], ColMass(j))]))

InRange(x, grid) == RLe(grid[1], x) /\ RLe(x, grid[Len(grid)])

C4_BoundaryClamping ==
    (Returned /\ EqualLen) =>
        /\ (\A k \in 1..NSamples : RLe(call.m_vals[k], Dist_mGrid[1])) =>
              \A i \in 1..GridLenM, j \in 1..GridLenP :
                 Cell(i, j) = IF i # 1 THEN Zero
                              ELSE RSum(Array([k \in 1..NSamples |->
                                       RMul(call.probs[k], Share(call.perm_vals[k], Dist_pGrid, j))]))
        /\ (\A k \in 1..NSamples : RLe(Dist_mGrid[GridLenM], call.m_vals[k])) =>
              \A i \in 1..GridLenM, j \in 1..GridLenP :
                 Cell(i, j) = IF i # GridLenM THEN Zero
                              ELSE RSum(Array([k \in 1..NSamples |->
                                       RMul(call.probs[k], Share(call.perm_vals[k], Dist_pGrid, j))]))
        /\ (\A k \in 1..NSamples : RLe(call.perm_vals[k], Dist_pGrid[1])) =>
              \A i \in 1..GridLenM, j \in 1..GridLenP :
                 Cell(i, j) = IF j # 1 THEN Zero
                              ELSE RSum(Array([k \in 1..NSamples |->
                                       RMul(call.probs[k], Share(call.m_vals[k], Dist_mGrid, i))]))
        /\ (\A k \in 1..NSamples : RLe(Dist_pGrid[GridLenP], call.perm_vals[k])) =>
              \A i \in 1..GridLenM, j \in 1..GridLenP :
                 Cell(i, j) = IF j # GridLenP THEN Zero
                              ELSE RSum(Array([k \in 1..NSamples |->
                                       RMul(call.probs[k], Share(call.m_vals[k], Dist_mGrid, i))]))

\* A sample strictly below the m grid 1, 2 whose p value lies strictly
\* inside a p interval: its mass is on the first m point, split over two p points
C4_Witness ==
    /\ Returned /\ EqualLen /\ NSamples = 1 /\ GridLenM = 2 /\ GridLenP = 3
    /\ RLt(call.m_vals[1], Dist_mGrid[1])
    /\ call.perm_vals[1] = R(2, 1)
    /\ RowMass(1) = call.probs[1]
    /\ Cell(1, 2) # Zero /\ Cell(1, 3) # Zero

\* C5: a single sample on the grid point (Dist_mGrid[i], Dist_pGrid[j]) with
\* probability q returns q at index i*len(Dist_pGrid)+j and 0 elsewhere.
C5_OneHotOnGridPoint ==
    (Returned /\ EqualLen /\ NSamples = 1) =>
        \A i \in 1..GridLenM, j \in 1..GridLenP :
            (call.m_vals[1] = Dist_mGrid[i] /\ call.perm_vals[1] = Dist_pGrid[j]) =>
                \A k \in 1..(GridLenM * GridLenP) :
                    call.ret[k] = IF k - 1 = (i - 1) * GridLenP + (j - 1)
                                  THEN call.probs[1] ELSE Zero

\* The sample on the inner m point and the last p point of grids of
\* different lengths
C5_Witness ==
    /\ Returned /\ EqualLen /\ NSamples = 1 /\ GridLenM = 3 /\ GridLenP = 2
    /\ call.m_vals[1] = Dist_mGrid[2] /\ call.perm_vals[1] = Dist_pGrid[2]
    /\ call.ret[4] = call.probs[1]

\* C6: a single sample strictly inside the range of a dimension's grid puts
\* the share (g_hi - x)/(g_hi - g_lo) of its mass on g_lo, the largest grid
\* point <= x, the rest on the next point g_hi and nothing elsewhere; at the
\* midpoint of g_lo and g_hi both get half.
InteriorSplit(x, grid, q, mass(_)) ==
    (RLt(grid[1], x) /\ RLt(x, grid[Len(grid)])) =>
        LET lo == Below(x, grid)
            w == RDiv(RSub(grid[lo + 1], x), RSub(grid[lo + 1], grid[lo]))
        IN  /\ mass(lo) = RMul(q, w)
            /\ mass(lo + 1) = RSub(q, RMul(q, w))
            /\ \A i \in 1..Len(grid) : i \notin {lo, lo + 1} => mass(i) = Zero
            /\ RAdd(x, x) = RAdd(grid[lo], grid[lo + 1]) =>
                  (mass(lo) = RMul(q, R(1, 2)) /\ mass(lo + 1) = RMul(q, R(1, 2)))

C6_InteriorSplit ==
    (Returned /\ EqualLen /\ NSamples = 1) =>
        /\ InteriorSplit(call.m_vals[1], Dist_mGrid, call.probs[1], RowMass)
        /\ InteriorSplit(call.perm_vals[1], Dist_pGrid, call.probs[1], ColMass)

\* A sample at the midpoint 1 of the m points 0 and 2 whose p value 2 lies a
\* third of the way from 1 to 4
C6_Witness ==
    /\ Returned /\ EqualLen /\ NSamples = 1 /\ GridLenM = 3 /\ GridLenP = 3
    /\ call.m_vals[1] = One /\ call.perm_vals[1] = R(2, 1)
    /\ RowMass(1) = RowMass(2) /\ RowMass(1) # Zero
    /\ ColMass(2) = RMul(call.probs[1], R(2, 3))
    /\ ColMass(3) = RMul(call.probs[1], R(1, 3))

\* C10: a call whose three arguments differ in length raises InputError and
\* returns nothing.
C10_LengthMismatchRaises ==
    (call.op = "JumpToGrid" /\ call.done /\ ~EqualLen) =>
        (call.raised = "InputError" /\ call.ret = Unset)

----------------------------------------------------------------------------
\* Properties of the agent's methods (Spec)

Column(T, c) == Array([r \in 1..Len(T) |-> T[r][c]])

\* C2: every column of TranMatrix sums to 1 and every entry lies in [0,1].
C2_ColumnStochastic ==
    TranMatrix # Unset =>
        /\ \A c \in 1..Len(TranMatrix) : RSum(Column(TranMatrix, c)) = One
        /\ \A r, c \in 1..Len(TranMatrix) :
              RLe(Zero, TranMatrix[r][c]) /\ RLe(TranMatrix[r][c], One)

\* A matrix on the default grids, newborns blended in, with an entry strictly
\* between 0 and 1
C2_Witness ==
    /\ call.op = "CalcTransitionMatrix" /\ call.raised = "none"
    /\ LivPrb = R(1, 2)
    /\ Len(TranMatrix) = 6
    /\ \E r, c \in 1..6 : RLt(Zero, TranMatrix[r][c]) /\ RLt(TranMatrix[r][c], R(1, 2))

\* T times the vector v
MatVec(T, v) == [r \in 1..Len(T) |->
                    RSum(Array([c \in 1..Len(T) |-> RMul(T[r][c], v[c])]))]

\* C7: the vec_dstn that CalcErgodicDist stores is a stationary probability
\* distribution of TranMatrix.
C7_ErgodicIsStationary ==
    (call.op = "CalcErgodicDist" /\ call.raised # "AttributeError") =>
        /\ \A i \in 1..Len(vec_dstn) : IsFinite(vec_dstn[i]) /\ RLe(Zero, vec_dstn[i])
        /\ RSum(vec_dstn) = One
        /\ Array(MatVec(TranMatrix, vec_dstn)) = vec_dstn

\* C8: DefineDistributionGrid on an agent with cycles # 0 raises
\* ConfigurationError.
C8_RaisesConfigurationError ==
    (call.op = "DefineDistributionGrid" /\ cycles # 0) =>
        call.raised = "ConfigurationError"

\* C9: on a cycles = 0 agent, a call with an explicit array of two or more
\* points for either grid completes and stores each supplied grid, the
\* default grid where none was supplied.
IsArray2(arg) == arg.kind = "ndarray" /\ Len(arg.val) >= 2
C9_ExplicitGridStored ==
    (/\ call.op = "DefineDistributionGrid"
     /\ cycles = 0
     /\ IsArray2(call.m_arg) \/ IsArray2(call.p_arg)) =>
        /\ call.raised = "none"
        /\ Dist_mGrid = IF call.m_arg = None THEN aXtraGrid ELSE call.m_arg.val
        /\ Dist_pGrid = IF call.p_arg = None THEN AutoPGrid ELSE call.p_arg.val

\* Next-period market resources of cell row i (0-based) under shock k:
\* Rfree*(m - cFunc(m))/psi_k + xi_k
NextM(i, k) ==
    RAdd(RDiv(RMul(Rfree, RSub(Dist_mGrid[i + 1], Policy(cFunc, Dist_mGrid[i + 1]))),
              PermShocks[k]),
         TranShocks[k])

\* Next-period permanent income of cell column j (0-based) under shock k
NextP(j, k) == RMul(Dist_pGrid[j + 1], PermShocks[k])

\* LivPrb * JumpToGrid(m', p', probs) + (1-LivPrb) * JumpToGrid(xi, 1, probs)
ExpectedColumn(i, j) ==
    LET K == Len(ShockProbs)
        survive == JumpToGrid(Dist_mGrid, Dist_pGrid,
                              [k \in 1..K |-> NextM(i, k)],
                              [k \in 1..K |-> NextP(j, k)], ShockProbs).ret
        newborn == JumpToGrid(Dist_mGrid, Dist_pGrid, TranShocks,
                              [k \in 1..K |-> One], ShockProbs).ret
    IN  [r \in 1..Len(survive) |->
            RAdd(RMul(LivPrb, survive[r]), RMul(RSub(One, LivPrb), newborn[r]))]

\* The weight that linear interpolation on 0, 5, 10 gives grid point r for x,
\* x held within 0..10
RAbs(x) == IF RLt(x, Zero) THEN RNeg(x) ELSE x
Hat(x, r) ==
    LET y == IF RLt(x, Zero) THEN Zero ELSE IF RLt(R(10, 1), x) THEN R(10, 1) ELSE x
        dist == RAbs(RSub(y, Grid3[r]))
    IN  IF RLe(R(5, 1), dist) THEN Zero ELSE RSub(One, RDiv(dist, R(5, 1)))

\* The grids and parameters of the worked case: mGrid 0, 5, 10, pGrid 1.0,
\* LivPrb 1, cFunc(m) = m/2
HalfCase ==
    /\ call.op = "CalcTransitionMatrix" /\ call.raised = "none"
    /\ Dist_mGrid = Grid3 /\ Dist_pGrid = <<One>>
    /\ LivPrb = One /\ cFunc = "half"

\* C11: after CalcTransitionMatrix the column of cell (i, j), at index
\* i*len(Dist_pGrid)+j, is LivPrb * JumpToGrid(m', p', probs) +
\* (1-LivPrb) * JumpToGrid(TranShocks, ones, probs) with
\* m'_k = Rfree*(m_i - cFunc(m_i))/psi_k + xi_k and p'_k = p_j*psi_k; in the
\* worked case the column of m = 10 is the projection of 5*Rfree/psi_k + xi_k,
\* and a shock with m' = 7.5 puts half of its probability on m = 5 and half
\* on m = 10.
C11_ColumnFormula ==
    /\ (call.op = "CalcTransitionMatrix" /\ call.raised = "none") =>
          \A i \in 0..(GridLenM - 1), j \in 0..(GridLenP - 1) :
              Column(TranMatrix, i * GridLenP + j + 1) = Array(ExpectedColumn(i, j))
    /\ HalfCase =>
          LET K == Len(ShockProbs)
              mNext == [k \in 1..K |->
                          RAdd(RDiv(RMul(R(5, 1), Rfree), PermShocks[k]), TranShocks[k])]
          IN  /\ \A r \in 1..3 :
                    TranMatrix[r][3] =
                        RSum(Array([k \in 1..K |-> RMul(ShockProbs[k], Hat(mNext[k], r))]))
              /\ \A k \in 1..K :
                    mNext[k] = R(15, 2) =>
                        /\ Hat(mNext[k], 1) = Zero
                        /\ Hat(mNext[k], 2) = R(1, 2)
                        /\ Hat(mNext[k], 3) = R(1, 2)

\* The worked case with two shocks of probability 1/2, one of them giving
\* m' = 7.5 from m = 10: a quarter of the column's mass lands on m = 5
C11_Witness ==
    /\ HalfCase
    /\ Len(ShockProbs) = 2
    /\ \E k \in 1..2 : NextM(2, k) = R(15, 2) /\ ShockProbs[k] = R(1, 2)
    /\ TranMatrix[2][3] = R(1, 4)
    /\ TranMatrix[3][3] = R(3, 4)

\* C12: over any sequence of calls, a stored TranMatrix is square of size
\* len(Dist_mGrid)*len(Dist_pGrid) for the grids currently stored, and
\* CalcErgodicDist never combines the TranMatrix of one grid with the lengths
\* of another: the vector it solves for has one entry per cell of the stored
\* grids and is reshaped to them.
C12_TranMatrixMatchesGrids ==
    /\ TranMatrix # Unset =>
          /\ Len(TranMatrix) = GridLenM * GridLenP
          /\ \A r \in 1..Len(TranMatrix) : Len(TranMatrix[r]) = GridLenM * GridLenP
    /\ (call.op = "CalcErgodicDist" /\ call.raised # "AttributeError") =>
          /\ call.raised = "none"
          /\ Len(vec_dstn) = GridLenM * GridLenP

====
